---- MODULE Spec2Model ----
(***************************************************************************)
(* Verification model of sendly's send orchestrator (SendEmailCommand),    *)
(* webhook ingestion (ProcessDeliveryEventsCommand, the delivery-events    *)
(* route), the provider registry and the EmailService persistence calls    *)
(* they make.  Persisted state is the `emails` and `email_events` tables.  *)
(* Every EmailService call commits on its own, so every commit is one      *)
(* step of the model; a send and a webhook ingestion interleave at those   *)
(* commits.                                                                *)
(***************************************************************************)
EXTENDS Integers, Sequences, FiniteSets, TLC

\* ---------------------------------------------------------------- bounds
MaxSends == 1
MaxWebhooks == 2
MaxBatch == 2

\* ------------------------------------------------------------ vocabulary
\* Python None in a string-valued position
None == "None"

\* app/constants/email.py
QUEUED == "queued"
SENT == "sent"
FAILED == "failed"

HTTP_400_BAD_REQUEST == 400
HTTP_401_UNAUTHORIZED == 401
HTTP_404_NOT_FOUND == 404

\* Optional[list]: <<>> is None, <<x>> is the value x
NoneOpt == <<>>
Some(x) == <<x>>

\* values datetime.utcnow() can return during a send
Times == {"t9"}

\* message ids a provider hands out for a send
MsgIds == {"M1", "M2"}

\* ------------------------------------------------------ provider registry
\* A provider class: its registry slug and its static attributes.
ProviderClass(slug, provider_id, enabled, default) ==
    [slug |-> slug, provider_id |-> provider_id,
     enabled |-> enabled, default |-> default]

\* PostmarkProvider as written: it overrides none of EmailProvider's
\* class attributes (provider_id "", enabled True, default False).
PostmarkProvider == ProviderClass("postmark", "", TRUE, FALSE)

\* The registry tables the model runs under: the table as written, and a
\* table whose classes set their attributes, with a disabled default entry
\* ahead of two enabled default ones.
RegistryTables ==
    { << PostmarkProvider >>,
      << ProviderClass("ses", "ses", FALSE, TRUE),
         ProviderClass("postmark", "postmark", TRUE, TRUE),
         ProviderClass("resend", "resend", TRUE, TRUE) >> }

Slugs == {"postmark", "ses", "sendgrid"}

Min(S) == CHOOSE x \in S : \A y \in S : x <= y

\* index of the class registered under slug, 0 when there is none
klassOf(P, slug) ==
    LET S == {i \in 1..Len(P) : P[i].slug = slug}
    IN  IF S = {} THEN 0 ELSE Min(S)

\* variant: the enabled flag is not looked at
get_default_provider_slug_DefaultOnly(P) ==
    LET S == {i \in 1..Len(P) : P[i].default}
    IN  IF S = {} THEN None ELSE P[Min(S)].slug

get_default_provider_slug(P) ==
    LET S == {i \in 1..Len(P) : P[i].enabled /\ P[i].default}
    IN  IF S = {} THEN None ELSE P[Min(S)].slug

\* a settings dict, as the set of its (key, value) pairs; {} is the dict {}
EmptySettings == {}

\* the settings dicts a caller of the registry can pass
SettingsPool == { EmptySettings, {<<"api_key", "k1">>},
                  {<<"api_key", "k2">>, <<"stream", "outbound">>} }

\* what a registry call gives: an adapter instance (klass: the index of its
\* class in the table) holding its settings, or the ValueError it raised
Adapter(klass, provider_id, settings) ==
    [raised |-> FALSE, error |-> None, klass |-> klass,
     provider_id |-> provider_id, settings |-> settings]

ValueError(error) ==
    [raised |-> TRUE, error |-> error, klass |-> 0,
     provider_id |-> None, settings |-> EmptySettings]

\* variant: the instance is built without the settings it was given
get_provider_NoSettings(P, slug, settings) ==
    LET k == klassOf(P, slug)
    IN  IF k = 0
        THEN ValueError("Unsupported provider")
        ELSE Adapter(k, P[k].provider_id, EmptySettings)

get_provider(P, slug, settings) ==
    LET k == klassOf(P, slug)
    IN  IF k = 0
        THEN ValueError("Unsupported provider")
        ELSE Adapter(k, P[k].provider_id, settings)

\* settings is Optional: NoneOpt stands for None, and `settings or {}`
\* turns None and {} alike into {}
get_default_provider(P, settings) ==
    LET slug == get_default_provider_slug(P)
    IN  IF slug = None
        THEN ValueError("No default email provider configured")
        ELSE get_provider(P, slug,
                          IF settings = NoneOpt THEN EmptySettings
                          ELSE settings[1])

\* ------------------------------------------------------------ persistence
\* variant: the row does not record the provider it was sent through
EmailRow_NoProvider(provider) ==
    [status |-> QUEUED, sent_at |-> None, provider |-> None,
     provider_message_id |-> None, error_message |-> None]

\* a row of `emails`; its id is its position in the table
EmailRow(provider) ==
    [status |-> QUEUED, sent_at |-> None, provider |-> provider,
     provider_message_id |-> None, error_message |-> None]

\* EmailService.create_email: add, commit, refresh
create_email(tbl, row) == Append(tbl, row)

\* EmailService.update_email: set exactly the fields of the update that
\* were given (model_dump(exclude_unset=True)), commit
update_email(tbl, email_id, upd) ==
    IF email_id \in 1..Len(tbl)
    THEN [tbl EXCEPT ![email_id] =
            [f \in DOMAIN @ |-> IF f \in DOMAIN upd THEN upd[f] ELSE @[f]]]
    ELSE tbl

\* a row of `email_events`
EmailEventCreate(email_id, event_type, event_timestamp, details) ==
    [email_id |-> email_id, event_type |-> event_type,
     event_timestamp |-> event_timestamp, details |-> details]

\* EmailService.create_email_event: add, commit, refresh
create_email_event(tbl, ev) == Append(tbl, ev)

\* ids of the emails a lookup by (provider, provider_message_id) matches
MatchingEmails(tbl, provider_message_id, provider) ==
    {i \in 1..Len(tbl) :
        /\ tbl[i].provider = provider
        /\ tbl[i].provider_message_id = provider_message_id}

\* ------------------------------------------------------------------ state
VARIABLES
    PROVIDERS,      \* the registry table (slug -> provider class), in order
    emails,         \* table emails
    email_events,   \* table email_events, in insertion order
    send,           \* SendEmailCommand.execute in flight: its locals
    sendOut,        \* what the last finished send gave its caller
    sendCalls,      \* number of sends started
    wh,             \* the delivery-events request in flight: its locals
    whOut,          \* what the last finished delivery-events request gave
    whCalls,        \* number of delivery-events requests started
    pm,             \* the last direct call of a PostmarkProvider method
    env,            \* what get_settings() reads from the environment
    fernet,         \* CryptoManager._fernet: the key of the cached Fernet
    tenant,         \* a Tenant: its persisted provider_settings column
    vaultOut,       \* the last call of the vault or of the Tenant property
    records,        \* a table with soft delete: id -> its row
    sdOut           \* the last call of a SoftDeleteService method

pipelineVars ==
    <<PROVIDERS, emails, email_events, send, sendOut, sendCalls,
      wh, whOut, whCalls, pm>>

vaultVars == <<env, fernet, tenant, vaultOut>>

sdVars == <<records, sdOut>>

vars == <<PROVIDERS, emails, email_events, send, sendOut, sendCalls,
          wh, whOut, whCalls, pm, vaultVars, sdVars>>

NoResult ==
    [ok |-> FALSE, provider_message_id |-> None,
     error_code |-> None, error_message |-> None, raised |-> FALSE]

\* ------------------------------------------------- the send request
\* What execute reads of its request: html is the set of names the Mako
\* template references, template_variables the keys the caller supplied.
EmailCreateRequest(html, template_variables) ==
    [html |-> html, template_variables |-> template_variables]

NoReq == EmailCreateRequest({}, {})

\* the requests a caller sends: one that renders, two that reference a
\* name the caller did not supply
Requests ==
    { EmailCreateRequest({"name"}, {"name"}),
      EmailCreateRequest({"name"}, {}),
      EmailCreateRequest({"name", "link"}, {"name"}) }

\* variant: a name the caller did not supply renders as empty text
RenderRaises_Lenient(req) == FALSE

\* Template(req.html).render(**req.template_variables) raises NameError
\* when the template references a name that is not among the keys
RenderRaises(req) == ~(req.html \subseteq req.template_variables)

\* list(req.template_variables.keys()), the keys the ValueError lists
ListedKeys(req) == req.template_variables

SendIdle ==
    [pc |-> "idle", email_id |-> 0, provider_id |-> None, req |-> NoReq,
     result |-> NoResult, now |-> None, updated_email |-> EmailRow(None)]

\* sendOut: kind is "none" while no send has finished, "returned" with the
\* Email execute returned, "raised" with the error it raised (listed: the
\* keys the error message lists); email_id is the row the send created
\* (0: none), req the request of the call and result what the adapter
\* answered
NoSendOut == [kind |-> "none", email_id |-> 0, email |-> EmailRow(None),
              error |-> None, listed |-> {}, req |-> NoReq,
              result |-> NoResult]

Raised(error, email_id, result) ==
    [kind |-> "raised", email_id |-> email_id, email |-> EmailRow(None),
     error |-> error, listed |-> {}, req |-> send.req, result |-> result]

Returned(email_id, email, result) ==
    [kind |-> "returned", email_id |-> email_id, email |-> email,
     error |-> None, listed |-> {}, req |-> send.req, result |-> result]

\* ---------------------------------------------- the adapter's send_email
SendResult(ok, provider_message_id, error_code, error_message) ==
    [ok |-> ok, provider_message_id |-> provider_message_id,
     error_code |-> error_code, error_message |-> error_message,
     raised |-> FALSE]

\* what EmailProvider.send_email can do: return a result (success with an
\* id, a reported failure, a failure response that still carries an id) or
\* raise (transport failure, timeout)
SendOutcomes ==
    { SendResult(TRUE, m, None, None) : m \in MsgIds }
    \cup { SendResult(FALSE, None, "E1", "boom"),
           SendResult(FALSE, "M1", None, None),
           [NoResult EXCEPT !.raised = TRUE] }

\* ------------------------------------------- SendEmailCommand.execute
\* variant: the status written on success is the delivery status
SentUpdate_Delivered(result, now) ==
    [status |-> "delivered", sent_at |-> now,
     provider_message_id |-> result.provider_message_id]

\* variant: the provider's message id is not stored
SentUpdate_NoMessageId(result, now) == [status |-> SENT, sent_at |-> now]

\* the EmailUpdate of the success branch
SentUpdate(result, now) ==
    [status |-> SENT, sent_at |-> now,
     provider_message_id |-> result.provider_message_id]

\* variant: the id of the provider's failure response is stored
FailedUpdate_KeepsMessageId(result, now) ==
    [status |-> FAILED, provider_message_id |-> result.provider_message_id]

\* the EmailUpdate of the failure branch (updated_at is no field of
\* EmailUpdate and is dropped by the schema)
FailedUpdate(result, now) == [status |-> FAILED]

\* variant: only the message of the provider's error is kept
FailedEvent_MessageOnly(email_id, result, now) ==
    EmailEventCreate(email_id, "failed", now,
                     [error_message |-> result.error_message])

\* the Email Event of the failure branch
FailedEvent(email_id, result, now) ==
    EmailEventCreate(email_id, "failed", now,
                     [error_code |-> result.error_code,
                      error_message |-> result.error_message])

\* steps 1-2: resolve the default provider, render, persist the queued row
SendStart(req) ==
    /\ send.pc = "idle"
    /\ sendCalls < MaxSends
    /\ sendCalls' = sendCalls + 1
    /\ LET email_provider == get_default_provider(PROVIDERS, NoneOpt)
       IN  IF email_provider.raised
           THEN /\ sendOut' = [Raised(email_provider.error, 0, NoResult)
                                  EXCEPT !.req = req]
                /\ UNCHANGED <<emails, send>>
           ELSE IF RenderRaises(req)
           THEN /\ sendOut' =
                      [Raised("Template rendering failed", 0, NoResult)
                          EXCEPT !.req = req, !.listed = ListedKeys(req)]
                /\ UNCHANGED <<emails, send>>
           ELSE /\ emails' = create_email(emails,
                                          EmailRow(email_provider.provider_id))
                /\ send' = [SendIdle EXCEPT !.pc = "call",
                                !.email_id = Len(emails) + 1,
                                !.provider_id = email_provider.provider_id,
                                !.req = req]
                /\ sendOut' = NoSendOut
    /\ UNCHANGED <<PROVIDERS, vaultVars, sdVars,
                   pm, email_events, wh, whOut, whCalls>>

\* variant: an error raised by the provider call is caught and handled as
\* a failed result
SendCall_Swallow(result, now) ==
    /\ send.pc = "call"
    /\ send' = [send EXCEPT !.pc = "update", !.result = result, !.now = now]
    /\ UNCHANGED sendOut
    /\ UNCHANGED <<PROVIDERS, vaultVars, sdVars,
                   pm, emails, email_events, sendCalls,
                   wh, whOut, whCalls>>

\* step 3: the provider call; it returns a result or raises
SendCall(result, now) ==
    /\ send.pc = "call"
    /\ IF result.raised
       THEN /\ sendOut' = Raised("provider call raised", send.email_id,
                                 result)
            /\ send' = SendIdle
       ELSE /\ send' = [send EXCEPT !.pc = "update", !.result = result,
                                    !.now = now]
            /\ UNCHANGED sendOut
    /\ UNCHANGED <<PROVIDERS, vaultVars, sdVars,
                   pm, emails, email_events, sendCalls,
                   wh, whOut, whCalls>>

\* the update_email of either branch
SendUpdate ==
    /\ send.pc = "update"
    /\ LET upd == IF send.result.ok THEN SentUpdate(send.result, send.now)
                  ELSE FailedUpdate(send.result, send.now)
       IN  emails' = update_email(emails, send.email_id, upd)
    /\ IF send.result.ok
       THEN /\ sendOut' = Returned(send.email_id, emails'[send.email_id],
                                   send.result)
            /\ send' = SendIdle
       ELSE /\ send' = [send EXCEPT !.pc = "event",
                                    !.updated_email = emails'[send.email_id]]
            /\ UNCHANGED sendOut
    /\ UNCHANGED <<PROVIDERS, vaultVars, sdVars,
                   pm, email_events, sendCalls, wh, whOut, whCalls>>

\* the create_email_event of the failure branch, then return updated_email
SendFailedEvent ==
    /\ send.pc = "event"
    /\ email_events' = create_email_event(email_events,
                          FailedEvent(send.email_id, send.result, send.now))
    /\ sendOut' = Returned(send.email_id, send.updated_email, send.result)
    /\ send' = SendIdle
    /\ UNCHANGED <<PROVIDERS, vaultVars, sdVars,
                   pm, emails, sendCalls, wh, whOut, whCalls>>

\* the commit inside update_email fails: the error propagates
SendUpdateFails ==
    /\ send.pc = "update"
    /\ sendOut' = Raised("commit failed in update_email", send.email_id,
                       send.result)
    /\ send' = SendIdle
    /\ UNCHANGED <<PROVIDERS, vaultVars, sdVars,
                   pm, emails, email_events, sendCalls,
                   wh, whOut, whCalls>>

\* the commit inside create_email_event fails: the error propagates
SendFailedEventFails ==
    /\ send.pc = "event"
    /\ sendOut' = Raised("commit failed in create_email_event",
                       send.email_id, send.result)
    /\ send' = SendIdle
    /\ UNCHANGED <<PROVIDERS, vaultVars, sdVars,
                   pm, emails, email_events, sendCalls,
                   wh, whOut, whCalls>>

\* ------------------------------------------ the adapter's parse_webhook
\* a normalized webhook event (providers/base.py EmailEvent)
Event(provider_message_id, type, occurred_at, raw_payload) ==
    [provider_message_id |-> provider_message_id, type |-> type,
     occurred_at |-> occurred_at, raw_payload |-> raw_payload]

\* the events a batch is made of; each names a message id that the
\* provider may or may not have given to a send by the time it is ingested
EventPool ==
    { Event("M1", "delivered", "t1",
            [RecordType |-> "Delivery", MessageID |-> "M1"]),
      Event("M2", "opened", "t2",
            [RecordType |-> "Open", MessageID |-> "M2"]) }

\* what parse_webhook can yield: any finite sequence of events
Batches == UNION { [1..n -> EventPool] : n \in 0..MaxBatch }

\* ------------------------------------- ProcessDeliveryEventsCommand
WhIdle ==
    [pc |-> "idle", slug |-> None, settings |-> EmptySettings,
     provider_id |-> None, verify_called |-> FALSE,
     verified |-> FALSE, parse_called |-> FALSE, parsed_events |-> <<>>, i |-> 0,
     processed_count |-> 0, failed_events |-> <<>>, inserted |-> <<>>]

NoBody ==
    [status |-> None, provider |-> None, events_received |-> 0,
     events_processed |-> 0, events_failed |-> 0, failures |-> NoneOpt]

NoWhOut == [kind |-> "none", status_code |-> 0, body |-> NoBody,
            call |-> WhIdle]

HTTPException(status_code, call) ==
    [kind |-> "raised", status_code |-> status_code, body |-> NoBody,
     call |-> call]

\* the "status" entry of the result
BatchStatus(processed_count) ==
    IF processed_count > 0 THEN "success" ELSE "partial_failure"

\* variant: the list is returned even when it is empty
Failures_AlwaysList(failed_events) == Some(failed_events)

\* the "failures" entry of the result
Failures(failed_events) ==
    IF failed_events # <<>> THEN Some(failed_events) ELSE NoneOpt

\* the dict execute returns
ExecuteResult(provider_id, parsed_events, processed_count, failed_events) ==
    [status |-> BatchStatus(processed_count),
     provider |-> provider_id,
     events_received |-> Len(parsed_events),
     events_processed |-> processed_count,
     events_failed |-> Len(failed_events),
     failures |-> Failures(failed_events)]

\* the descriptor appended for an event whose processing raised
FailureDescriptor(event, error) ==
    [provider_message_id |-> event.provider_message_id, error |-> error]

\* variant: every correlated event is stored as a delivery
EventRow_FixedType(email_id, event) ==
    EmailEventCreate(email_id, "delivered", event.occurred_at,
                     event.raw_payload)

\* the Email Event _process_single_event creates for a correlated event
EventRow(email_id, event) ==
    EmailEventCreate(email_id, event.type, event.occurred_at,
                     event.raw_payload)

\* variant: the result of verify_webhook is not acted on
ExecuteBegin_NoVerify(provider_id, verify_ok, batch) ==
    [WhIdle EXCEPT !.provider_id = provider_id, !.verify_called = TRUE,
                   !.verified = verify_ok, !.pc = "loop",
                   !.parse_called = TRUE, !.parsed_events = batch, !.i = 1]

\* execute up to its loop: verify the signature, then parse.  The locals
\* it leaves: pc "raise" when it raised the 401, "loop" otherwise
ExecuteBegin(provider_id, verify_ok, batch) ==
    LET c == [WhIdle EXCEPT !.provider_id = provider_id,
                            !.verify_called = TRUE,
                            !.verified = verify_ok]
    IN  IF ~verify_ok
        THEN [c EXCEPT !.pc = "raise"]
        ELSE [c EXCEPT !.pc = "loop", !.parse_called = TRUE,
                       !.parsed_events = batch, !.i = 1]

\* the delivery-events route up to the loop of execute: resolve the
\* provider, read the JSON body, then execute's verify and parse
receive_delivery_events(slug, json_ok, verify_ok, batch) ==
    /\ wh.pc = "idle"
    /\ whCalls < MaxWebhooks
    /\ whCalls' = whCalls + 1
    /\ LET provider == get_provider(PROVIDERS, slug, EmptySettings)
           req == [WhIdle EXCEPT !.slug = slug]
       IN  IF provider.raised
           THEN /\ whOut' = HTTPException(HTTP_404_NOT_FOUND, req)
                /\ UNCHANGED wh
           ELSE IF ~json_ok
           THEN /\ whOut' = HTTPException(HTTP_400_BAD_REQUEST,
                                [req EXCEPT !.settings = provider.settings])
                /\ UNCHANGED wh
           ELSE LET c == [ExecuteBegin(provider.provider_id, verify_ok,
                                       batch)
                             EXCEPT !.slug = slug,
                                    !.settings = provider.settings]
                IN  IF c.pc = "raise"
                    THEN /\ whOut' = HTTPException(HTTP_401_UNAUTHORIZED, c)
                         /\ UNCHANGED wh
                    ELSE /\ wh' = c
                         /\ whOut' = NoWhOut
    /\ UNCHANGED <<PROVIDERS, vaultVars, sdVars,
                   pm, emails, email_events, send, sendOut, sendCalls>>

\* variant: an event already stored for the Email is acknowledged without
\* a second insert
ProcessEvent_Dedup ==
    /\ wh.pc = "loop"
    /\ wh.i <= Len(wh.parsed_events)
    /\ LET event == wh.parsed_events[wh.i]
           found == MatchingEmails(emails, event.provider_message_id,
                                   wh.provider_id)
       IN  IF found = {}
           THEN /\ wh' = [wh EXCEPT !.i = @ + 1,
                            !.failed_events = Append(@,
                               FailureDescriptor(event, "Email not found"))]
                /\ UNCHANGED email_events
           ELSE \E email_id \in found :
                IF \E j \in 1..Len(email_events) :
                      email_events[j] = EventRow(email_id, event)
                THEN /\ wh' = [wh EXCEPT !.i = @ + 1,
                                         !.processed_count = @ + 1]
                     /\ UNCHANGED email_events
                ELSE /\ email_events' = create_email_event(email_events,
                                           EventRow(email_id, event))
                     /\ wh' = [wh EXCEPT !.i = @ + 1,
                                 !.processed_count = @ + 1,
                                 !.inserted = Append(@, Len(email_events) + 1)]
    /\ UNCHANGED <<PROVIDERS, vaultVars, sdVars,
                   pm, emails, send, sendOut, sendCalls,
                   whOut, whCalls>>

\* variant: a correlated event also moves the Email to the event's type
ProcessEvent_UpdatesEmail ==
    /\ wh.pc = "loop"
    /\ wh.i <= Len(wh.parsed_events)
    /\ LET event == wh.parsed_events[wh.i]
           found == MatchingEmails(emails, event.provider_message_id,
                                   wh.provider_id)
       IN  IF found = {}
           THEN /\ wh' = [wh EXCEPT !.i = @ + 1,
                            !.failed_events = Append(@,
                               FailureDescriptor(event, "Email not found"))]
                /\ UNCHANGED <<emails, email_events>>
           ELSE \E email_id \in found :
                /\ email_events' = create_email_event(email_events,
                                      EventRow(email_id, event))
                /\ emails' = update_email(emails, email_id,
                                          [status |-> event.type])
                /\ wh' = [wh EXCEPT !.i = @ + 1,
                            !.processed_count = @ + 1,
                            !.inserted = Append(@, Len(email_events) + 1)]
    /\ UNCHANGED <<PROVIDERS, vaultVars, sdVars,
                   pm, send, sendOut, sendCalls, whOut, whCalls>>

\* variant: the first event that fails ends the loop
ProcessEvent_AbortOnFailure ==
    /\ wh.pc = "loop"
    /\ wh.i <= Len(wh.parsed_events)
    /\ LET event == wh.parsed_events[wh.i]
           found == MatchingEmails(emails, event.provider_message_id,
                                   wh.provider_id)
       IN  IF found = {}
           THEN /\ wh' = [wh EXCEPT !.i = Len(wh.parsed_events) + 1,
                            !.failed_events = Append(@,
                               FailureDescriptor(event, "Email not found"))]
                /\ UNCHANGED email_events
           ELSE \E email_id \in found :
                /\ email_events' = create_email_event(email_events,
                                      EventRow(email_id, event))
                /\ wh' = [wh EXCEPT !.i = @ + 1,
                            !.processed_count = @ + 1,
                            !.inserted = Append(@, Len(email_events) + 1)]
    /\ UNCHANGED <<PROVIDERS, vaultVars, sdVars,
                   pm, emails, send, sendOut, sendCalls,
                   whOut, whCalls>>

\* variant: a failure is put at the head of the list
ProcessEvent_PrependFailure ==
    /\ wh.pc = "loop"
    /\ wh.i <= Len(wh.parsed_events)
    /\ LET event == wh.parsed_events[wh.i]
           found == MatchingEmails(emails, event.provider_message_id,
                                   wh.provider_id)
       IN  IF found = {}
           THEN /\ wh' = [wh EXCEPT !.i = @ + 1,
                            !.failed_events =
                               <<FailureDescriptor(event, "Email not found")>>
                                  \o @]
                /\ UNCHANGED email_events
           ELSE \E email_id \in found :
                /\ email_events' = create_email_event(email_events,
                                      EventRow(email_id, event))
                /\ wh' = [wh EXCEPT !.i = @ + 1,
                            !.processed_count = @ + 1,
                            !.inserted = Append(@, Len(email_events) + 1)]
    /\ UNCHANGED <<PROVIDERS, vaultVars, sdVars,
                   pm, emails, send, sendOut, sendCalls,
                   whOut, whCalls>>

\* one iteration of the loop: _process_single_event under try/except
ProcessEvent ==
    /\ wh.pc = "loop"
    /\ wh.i <= Len(wh.parsed_events)
    /\ LET event == wh.parsed_events[wh.i]
           found == MatchingEmails(emails, event.provider_message_id,
                                   wh.provider_id)
       IN  IF found = {}
           THEN /\ wh' = [wh EXCEPT !.i = @ + 1,
                            !.failed_events = Append(@,
                               FailureDescriptor(event, "Email not found"))]
                /\ UNCHANGED email_events
           ELSE \E email_id \in found :
                /\ email_events' = create_email_event(email_events,
                                      EventRow(email_id, event))
                /\ wh' = [wh EXCEPT !.i = @ + 1,
                            !.processed_count = @ + 1,
                            !.inserted = Append(@, Len(email_events) + 1)]
    /\ UNCHANGED <<PROVIDERS, vaultVars, sdVars,
                   pm, emails, send, sendOut, sendCalls,
                   whOut, whCalls>>

\* after the loop: build and return the result
ExecuteReturn ==
    /\ wh.pc = "loop"
    /\ wh.i > Len(wh.parsed_events)
    /\ whOut' = [kind |-> "returned", status_code |-> 200,
                 body |-> ExecuteResult(wh.provider_id, wh.parsed_events,
                                        wh.processed_count,
                                        wh.failed_events),
                 call |-> wh]
    /\ wh' = WhIdle
    /\ UNCHANGED <<PROVIDERS, vaultVars, sdVars,
                   pm, emails, email_events, send, sendOut,
                   sendCalls, whCalls>>

\* ------------------------------------------------- PostmarkProvider
\* a key a dict does not have
Missing == "<missing>"

\* JSON null
Null == "<null>"

\* what postmark.emails.send can hand back: the response dict of the API
\* (ErrorCode 0 is success), with or without a MessageID, or an error it
\* raises itself
PostmarkResponses ==
    [raises : {FALSE}, ErrorCode : {0, 406}, MessageID : MsgIds \cup {Missing}]
    \cup { [raises |-> TRUE, ErrorCode |-> 0, MessageID |-> Missing] }

NoResponse == [raises |-> FALSE, ErrorCode |-> 0, MessageID |-> Missing]

\* PostmarkProvider.send_email: settings["api_key"] and result["MessageID"]
\* raise KeyError on a missing key; error_code and error_message are never
\* set
postmark_send_email(settings, response) ==
    IF \/ ~(\E kv \in settings : kv[1] = "api_key")
       \/ response.raises
       \/ response.MessageID = Missing
    THEN [NoResult EXCEPT !.raised = TRUE]
    ELSE SendResult(response.ErrorCode = 0, response.MessageID, None, None)

\* the signature a webhook request carries in its headers
Signatures == {"valid", "forged", Missing}

\* PostmarkProvider.verify_webhook
postmark_verify_webhook(payload, headers) == TRUE

\* str.lower() on the record types Postmark posts
Lower(str) ==
    CASE str = "Delivery" -> "delivery"
      [] str = "Open" -> "open"
      [] str = "Click" -> "click"
      [] str = "Bounce" -> "bounce"
      [] str = "SpamComplaint" -> "spamcomplaint"
      [] str = "SubscriptionChange" -> "subscriptionchange"
      [] OTHER -> str

\* the webhook payloads: every key may be missing, RecordType may be null;
\* DeliveredAt, BouncedAt and Timestamp are read as ReceivedAt is
Payloads ==
    [RecordType : {Missing, Null, "", "Delivery", "Open", "Click", "Bounce",
                   "SpamComplaint", "SubscriptionChange"},
     MessageID : {Missing, "M1"},
     MessageId : {Missing, "M2"},
     Type : {Missing, "HardBounce"},
     ReceivedAt : {Missing, "t1", "not a date"}]

\* the request bodies verify_webhook is called on
Bodies ==
    {p \in Payloads : /\ p.MessageId = Missing
                      /\ p.Type = Missing
                      /\ p.ReceivedAt = Missing}

NoPayload ==
    [RecordType |-> Missing, MessageID |-> Missing, MessageId |-> Missing,
     Type |-> Missing, ReceivedAt |-> Missing]

\* the strings datetime.fromisoformat accepts
IsoTimes == {"t1"}

\* payload.get(key): None when the key is missing or null
Get(payload, key) ==
    IF payload[key] \in {Missing, Null} THEN None ELSE payload[key]

\* Python's `a or b` on Optional[str]: None and "" are falsy
Or(a, b) == IF a \in {None, ""} THEN b ELSE a

_map_pm_type(record_type, sub_type) ==
    CASE record_type = "delivery" -> "delivered"
      [] record_type = "open" -> "opened"
      [] record_type = "click" -> "clicked"
      [] record_type = "bounce" -> "bounced"
      [] record_type = "spamcomplaint" -> "complained"
      [] OTHER -> Or(record_type, Or(sub_type, "unknown"))

\* PostmarkProvider.parse_webhook: the event it yields, or the error raised
\* by .lower() on a RecordType that is null
postmark_parse_webhook(payload, now) ==
    IF payload.RecordType = Null
    THEN [raised |-> TRUE, events |-> <<>>]
    ELSE LET record_type == Lower(IF payload.RecordType = Missing THEN ""
                                  ELSE payload.RecordType)
             msg_id == Or(Get(payload, "MessageID"),
                          Or(Get(payload, "MessageId"), ""))
             ts == Get(payload, "ReceivedAt")
             occurred == IF ts \in IsoTimes THEN ts ELSE now
         IN  [raised |-> FALSE,
              events |-> << Event(msg_id,
                                  _map_pm_type(record_type,
                                               Get(payload, "Type")),
                                  occurred, payload) >>]

\* pm: the method called (op), the settings of the instance, the inputs of
\* the call and what it gave
PmCall(op, settings, response, signature, payload, raised, verdict, result, events) ==
    [op |-> op, settings |-> settings, response |-> response,
     signature |-> signature, payload |-> payload, raised |-> raised,
     verdict |-> verdict, result |-> result, events |-> events]

PmIdle ==
    PmCall("none", EmptySettings, NoResponse, Missing, NoPayload, FALSE,
           FALSE, NoResult, <<>>)

\* get_provider("postmark", settings).send_email(req)
PmSendEmail(settings, response) ==
    /\ ~get_provider(PROVIDERS, "postmark", settings).raised
    /\ LET result == postmark_send_email(
                         get_provider(PROVIDERS, "postmark",
                                      settings).settings, response)
       IN  pm' = PmCall("send_email", settings, response, Missing, NoPayload,
                        result.raised, FALSE, result, <<>>)
    /\ UNCHANGED <<PROVIDERS, vaultVars, sdVars,
                   emails, email_events, send, sendOut,
                   sendCalls, wh, whOut, whCalls>>

\* get_provider("postmark", {}).verify_webhook(body, headers)
PmVerifyWebhook(payload, signature) ==
    /\ ~get_provider(PROVIDERS, "postmark", EmptySettings).raised
    /\ pm' = PmCall("verify_webhook", EmptySettings, NoResponse, signature,
                    payload, FALSE,
                    postmark_verify_webhook(payload, signature), NoResult,
                    <<>>)
    /\ UNCHANGED <<PROVIDERS, vaultVars, sdVars,
                   emails, email_events, send, sendOut,
                   sendCalls, wh, whOut, whCalls>>

\* list(get_provider("postmark", {}).parse_webhook(payload, headers))
PmParseWebhook(payload, now) ==
    /\ ~get_provider(PROVIDERS, "postmark", EmptySettings).raised
    /\ LET out == postmark_parse_webhook(payload, now)
       IN  pm' = PmCall("parse_webhook", EmptySettings, NoResponse, Missing,
                        payload, out.raised, FALSE, NoResult, out.events)
    /\ UNCHANGED <<PROVIDERS, vaultVars, sdVars,
                   emails, email_events, send, sendOut,
                   sendCalls, wh, whOut, whCalls>>

\* ------------------------------------------------------- crypto vault
\* A str.  marker: it starts with the Fernet prefix "gAAAAA".  A marked
\* str is a Fernet token made under `key` with random part `iv`, whose
\* signature still verifies when `intact` (key None: no Fernet made it).
\* syntax, pairs and chars are the content: of the str itself when it is
\* not marked, of the plaintext inside when it is a token.  syntax is what
\* json.loads makes of the content: "object" (pairs: its members in
\* order), "scalar" (valid JSON, no object), "invalid".
Text(marker, key, iv, intact, syntax, pairs, chars) ==
    [marker |-> marker, key |-> key, iv |-> iv, intact |-> intact,
     syntax |-> syntax, pairs |-> pairs, chars |-> chars]

\* a str that does not start with the prefix
Plain(syntax, pairs, chars) == Text(FALSE, None, 0, FALSE, syntax, pairs, chars)

\* the str ""
EmptyText == Plain("invalid", <<>>, "")

\* s.startswith("gAAAAA")
startswith_marker(text) == text.marker

\* the random parts Fernet.encrypt can draw (timestamp and IV)
IVs == {1, 2}

\* Fernet(key).encrypt(plain)
fernet_encrypt(key, plain, iv) ==
    Text(TRUE, key, iv, TRUE, plain.syntax, plain.pairs, plain.chars)

\* Fernet(key).decrypt(token): the plaintext, or InvalidToken
fernet_decrypt(key, token) ==
    IF token.marker /\ token.key = key /\ token.intact
    THEN [raised |-> FALSE,
          text |-> Plain(token.syntax, token.pairs, token.chars)]
    ELSE [raised |-> TRUE, text |-> EmptyText]

\* a Python value: None, a str, a dict (the set of its (key, value) pairs)
\* or a value of another type
PyValue(type, text, dict) == [type |-> type, text |-> text, dict |-> dict]

PyNone == PyValue("NoneType", EmptyText, {})

PyStr(text) == PyValue("str", text, {})

PyDict(dict) == PyValue("dict", EmptyText, dict)

PyInt == PyValue("int", EmptyText, {})

\* the members of a dict in some order
RECURSIVE Members(_)
Members(dict) ==
    IF dict = {} THEN <<>>
    ELSE LET kv == CHOOSE x \in dict : TRUE
         IN  <<kv>> \o Members(dict \ {kv})

\* json.dumps(dict)
json_dumps(dict) == Plain("object", Members(dict), "")

\* json.loads(text): a dict for an object, another value for any other
\* valid JSON, JSONDecodeError otherwise
json_loads(text) ==
    CASE text.syntax = "object" ->
            [raised |-> FALSE,
             value |-> PyDict({text.pairs[n] : n \in 1..Len(text.pairs)})]
      [] text.syntax = "scalar" -> [raised |-> FALSE, value |-> PyNone]
      [] OTHER -> [raised |-> TRUE, value |-> PyNone]

\* Settings: the two fields the vault reads
Settings(fernet_key, environment) ==
    [fernet_key |-> fernet_key, environment |-> environment]

\* len(base64.urlsafe_b64decode(padded_key)); -1: the decoding raises
DecodedLen(fernet_key) ==
    CASE fernet_key = "K1" -> 32
      [] fernet_key = "short" -> 16
      [] OTHER -> -1

\* the environments a process is started in: FERNET_KEY unset, a 32-byte
\* key, a 16-byte key; ENV is any string
Configs ==
    { Settings(k, e) : k \in {None, "K1", "short"},
                       e \in {"development", "test", "staging",
                               "production"} }

\* the key PBKDF2 derives from fernet_salt
DerivedKey == "derived"

\* the message of a ValueError: its own text, then the text of the
\* exception it was raised for ("...: {e}"); no error: nothing
NoError == <<>>

\* what a vault call gives: the value returned or the ValueError raised,
\* and CryptoManager._fernet after the call
VaultReturn(value, fernet_after) ==
    [raised |-> FALSE, error |-> NoError, value |-> value,
     fernet |-> fernet_after]

VaultRaise(error, fernet_after) ==
    [raised |-> TRUE, error |-> error, value |-> PyNone,
     fernet |-> fernet_after]

\* variant: every environment without FERNET_KEY derives its key
_get_or_create_key_AlwaysDerive(settings) ==
    IF settings.fernet_key \notin {None, ""}
    THEN IF DecodedLen(settings.fernet_key) = 32
         THEN VaultReturn(PyNone, settings.fernet_key)
         ELSE VaultRaise(<<"Invalid FERNET_KEY format">>, None)
    ELSE VaultReturn(PyNone, DerivedKey)

\* CryptoManager._get_or_create_key; .fernet of the answer is the key
_get_or_create_key(settings) ==
    IF settings.fernet_key \notin {None, ""}
    THEN IF DecodedLen(settings.fernet_key) = 32
         THEN VaultReturn(PyNone, settings.fernet_key)
         ELSE VaultRaise(<<"Invalid FERNET_KEY format">>, None)
    ELSE IF settings.environment \in {"development", "test"}
    THEN VaultReturn(PyNone, DerivedKey)
    ELSE VaultRaise(
            <<"FERNET_KEY environment variable is required in production">>,
            None)

\* the property CryptoManager.fernet: the cached instance, or a new one
fernet_property(settings, cached) ==
    IF cached # None THEN VaultReturn(PyNone, cached)
    ELSE _get_or_create_key(settings)

encrypt_password(settings, cached, plain_text, iv) ==
    IF plain_text.type = "NoneType" THEN VaultReturn(PyStr(EmptyText), cached)
    ELSE IF plain_text.type # "str"
    THEN VaultRaise(<<"Password must be a string">>, cached)
    ELSE IF plain_text.text = EmptyText
    THEN VaultReturn(PyStr(EmptyText), cached)
    ELSE IF startswith_marker(plain_text.text)
    THEN VaultReturn(plain_text, cached)
    ELSE LET f == fernet_property(settings, cached)
         IN  IF f.raised
             THEN VaultRaise(<<"Failed to encrypt password">> \o f.error,
                             cached)
             ELSE VaultReturn(
                     PyStr(fernet_encrypt(f.fernet, plain_text.text, iv)),
                     f.fernet)

decrypt_password(settings, cached, encrypted_text) ==
    IF encrypted_text.type = "NoneType"
    THEN VaultReturn(PyStr(EmptyText), cached)
    ELSE IF encrypted_text.type # "str"
    THEN VaultRaise(<<"Encrypted password must be a string">>, cached)
    ELSE IF encrypted_text.text = EmptyText
    THEN VaultReturn(PyStr(EmptyText), cached)
    ELSE IF ~startswith_marker(encrypted_text.text)
    THEN VaultReturn(encrypted_text, cached)
    ELSE LET f == fernet_property(settings, cached)
         IN  IF f.raised
             THEN VaultRaise(<<"Failed to decrypt password">> \o f.error,
                             cached)
             ELSE LET d == fernet_decrypt(f.fernet, encrypted_text.text)
                  IN  IF d.raised
                      THEN VaultRaise(
                              <<"Invalid encrypted token - cannot decrypt">>,
                              f.fernet)
                      ELSE VaultReturn(PyStr(d.text), f.fernet)

is_encrypted(text) ==
    IF text.type # "str" \/ text.text = EmptyText THEN FALSE
    ELSE startswith_marker(text.text)

\* ---- Tenant.provider_settings
\* what the setter gives: the column after it, or the ValueError raised
SetReturn(column, fernet_after) ==
    [raised |-> FALSE, error |-> NoError, column |-> column,
     fernet |-> fernet_after]

SetRaise(error, column, fernet_after) ==
    [raised |-> TRUE, error |-> error, column |-> column,
     fernet |-> fernet_after]

\* variant: a failed decryption reads as no settings
provider_settings_getter_Swallow(settings, cached, column) ==
    IF column.type = "NoneType" THEN VaultReturn(PyDict({}), cached)
    ELSE LET d == decrypt_password(settings, cached, column)
         IN  IF d.raised THEN VaultReturn(PyDict({}), d.fernet)
             ELSE IF d.value.text = EmptyText
             THEN VaultReturn(PyDict({}), d.fernet)
             ELSE LET j == json_loads(d.value.text)
                  IN  IF j.raised THEN VaultReturn(PyDict({}), d.fernet)
                      ELSE VaultReturn(j.value, d.fernet)

\* the getter of Tenant.provider_settings
provider_settings_getter(settings, cached, column) ==
    IF column.type = "NoneType" THEN VaultReturn(PyDict({}), cached)
    ELSE LET d == decrypt_password(settings, cached, column)
         IN  IF d.raised THEN d
             ELSE IF d.value.text = EmptyText
             THEN VaultReturn(PyDict({}), d.fernet)
             ELSE LET j == json_loads(d.value.text)
                  IN  IF j.raised THEN VaultReturn(PyDict({}), d.fernet)
                      ELSE VaultReturn(j.value, d.fernet)

\* the setter's two encrypting branches: encrypt_password(json_str)
StoreEncrypted(settings, cached, column, json_str, iv) ==
    LET e == encrypt_password(settings, cached, PyStr(json_str), iv)
    IN  IF e.raised THEN SetRaise(e.error, column, e.fernet)
        ELSE SetReturn(e.value, e.fernet)

\* variant: an encrypted string is encrypted once more
provider_settings_setter_Reencrypt(settings, cached, column, value, iv) ==
    IF value.type = "NoneType" THEN SetReturn(PyNone, cached)
    ELSE IF value.type = "dict" /\ value.dict = {}
    THEN SetReturn(PyNone, cached)
    ELSE IF value.type = "str" /\ is_encrypted(value)
    THEN LET f == fernet_property(settings, cached)
         IN  IF f.raised
             THEN SetRaise(<<"Failed to encrypt password">> \o f.error,
                           column, cached)
             ELSE SetReturn(PyStr(fernet_encrypt(f.fernet, value.text, iv)),
                            f.fernet)
    ELSE IF value.type = "dict"
    THEN StoreEncrypted(settings, cached, column, json_dumps(value.dict), iv)
    ELSE IF value.type = "str"
    THEN IF json_loads(value.text).raised
         THEN SetRaise(
                 <<"provider_settings must be a valid JSON string or dict">>,
                 column, cached)
         ELSE StoreEncrypted(settings, cached, column, value.text, iv)
    ELSE SetRaise(<<"provider_settings must be a dict or JSON string">>,
                  column, cached)

\* the setter of Tenant.provider_settings
provider_settings_setter(settings, cached, column, value, iv) ==
    IF value.type = "NoneType" THEN SetReturn(PyNone, cached)
    ELSE IF value.type = "dict" /\ value.dict = {}
    THEN SetReturn(PyNone, cached)
    ELSE IF value.type = "str" /\ is_encrypted(value)
    THEN SetReturn(value, cached)
    ELSE IF value.type = "dict"
    THEN StoreEncrypted(settings, cached, column, json_dumps(value.dict), iv)
    ELSE IF value.type = "str"
    THEN IF json_loads(value.text).raised
         THEN SetRaise(
                 <<"provider_settings must be a valid JSON string or dict">>,
                 column, cached)
         ELSE StoreEncrypted(settings, cached, column, value.text, iv)
    ELSE SetRaise(<<"provider_settings must be a dict or JSON string">>,
                  column, cached)

\* ---- the calls
\* the last call: which, on what, and how it ended; n tells a call from
\* the one before it
VaultCall(op, input, raised, error, value, n) ==
    [op |-> op, input |-> input, raised |-> raised, error |-> error,
     value |-> value, n |-> n]

NoVaultCall == VaultCall("none", PyNone, FALSE, NoError, PyNone, 0)

\* the settings dicts assigned
VaultDicts ==
    { {}, {<<"api_key", "k1">>}, {<<"api_key", "k1">>, <<"region", "eu">>} }

\* the strs handed in: "", "hunter2", "{}", "null", a settings object,
\* "gAAAAA-hunter2", and a token made under another key
VaultTexts ==
    { EmptyText,
      Plain("invalid", <<>>, "hunter2"),
      Plain("object", <<>>, ""),
      Plain("scalar", <<>>, "null"),
      json_dumps({<<"api_key", "k1">>}),
      Text(TRUE, None, 0, FALSE, "invalid", <<>>, "-hunter2"),
      Text(TRUE, "K2", 1, TRUE, "object", <<<<"api_key", "k1">>>>, "") }

\* a token with a byte changed
Tampered(text) == [text EXCEPT !.intact = FALSE]

\* the strs the process holds: the column and the last value returned
HeldTexts ==
    {v.text : v \in {w \in {tenant, vaultOut.value} : w.type = "str"}}

\* every str a caller can pass
CallerTexts ==
    VaultTexts \cup HeldTexts \cup {Tampered(t) : t \in {h \in HeldTexts : h.marker}}

\* every value a caller can pass
CallerValues ==
    {PyNone, PyInt} \cup {PyStr(t) : t \in CallerTexts}
                    \cup {PyDict(d) : d \in VaultDicts}

EncryptPassword(plain_text, iv) ==
    LET r == encrypt_password(env, fernet, plain_text, iv)
    IN  /\ fernet' = r.fernet
        /\ vaultOut' = VaultCall("encrypt_password", plain_text, r.raised,
                                 r.error, r.value, 1 - vaultOut.n)
        /\ UNCHANGED <<pipelineVars, sdVars, env, tenant>>

DecryptPassword(encrypted_text) ==
    LET r == decrypt_password(env, fernet, encrypted_text)
    IN  /\ fernet' = r.fernet
        /\ vaultOut' = VaultCall("decrypt_password", encrypted_text, r.raised,
                                 r.error, r.value, 1 - vaultOut.n)
        /\ UNCHANGED <<pipelineVars, sdVars, env, tenant>>

SetProviderSettings(value, iv) ==
    LET r == provider_settings_setter(env, fernet, tenant, value, iv)
    IN  /\ fernet' = r.fernet
        /\ tenant' = r.column
        /\ vaultOut' = VaultCall("provider_settings.setter", value, r.raised,
                                 r.error, PyNone, 1 - vaultOut.n)
        /\ UNCHANGED <<pipelineVars, sdVars, env>>

GetProviderSettings ==
    LET r == provider_settings_getter(env, fernet, tenant)
    IN  /\ fernet' = r.fernet
        /\ vaultOut' = VaultCall("provider_settings.getter", tenant, r.raised,
                                 r.error, r.value, 1 - vaultOut.n)
        /\ UNCHANGED <<pipelineVars, sdVars, env, tenant>>

\* -------------------------------------------------------- soft delete
\* the ids looked up, and the instants datetime.now gives
RecordIds == {"r1", "r2"}

SdTimes == {"t1", "t2"}

\* a row of a model with SoftDeleteMixin; exists FALSE: no row has the id
Row(exists, deleted_at) == [exists |-> exists, deleted_at |-> deleted_at]

NoRow == Row(FALSE, None)

LiveRow == Row(TRUE, None)

\* variant: no criteria are added to a select
Select_Unfiltered(table, skip_soft_delete_filter) ==
    {id \in RecordIds : table[id].exists}

\* the rows a select sees: _add_soft_delete_criteria adds
\* "deleted_at IS NULL" unless the query opts out
Select(table, skip_soft_delete_filter) ==
    {id \in RecordIds :
        /\ table[id].exists
        /\ skip_soft_delete_filter \/ table[id].deleted_at = None}

\* query.filter(id == record_id).first()
First(table, record_id, skip_soft_delete_filter) ==
    IF record_id \in Select(table, skip_soft_delete_filter)
    THEN Some(record_id) ELSE NoneOpt

\* what a writing method gives: its return value and the table after it
SdResult(returned, table) == [returned |-> returned, table |-> table]

delete_record(table, record_id, now) ==
    IF First(table, record_id, FALSE) # NoneOpt
    THEN SdResult(TRUE, [table EXCEPT ![record_id].deleted_at = now])
    ELSE SdResult(FALSE, table)

delete_records(table, record_ids, now) ==
    SdResult(TRUE,
             [id \in RecordIds |->
                 IF id \in record_ids \cap Select(table, FALSE)
                 THEN Row(TRUE, now) ELSE table[id]])

restore_record(table, record_id) ==
    IF First(table, record_id, TRUE) # NoneOpt
    THEN SdResult(TRUE, [table EXCEPT ![record_id].deleted_at = None])
    ELSE SdResult(FALSE, table)

hard_delete_record(table, record_id) ==
    IF First(table, record_id, FALSE) # NoneOpt
    THEN SdResult(TRUE, [table EXCEPT ![record_id] = NoRow])
    ELSE SdResult(FALSE, table)

\* a normal lookup: TenantService.get_tenant
get_tenant(table, tenant_id) == First(table, tenant_id, FALSE)

get_deleted_record(table, record_id) ==
    IF /\ First(table, record_id, TRUE) # NoneOpt
       /\ table[record_id].deleted_at # None
    THEN Some(record_id) ELSE NoneOpt

get_record_any_status(table, record_id) == First(table, record_id, TRUE)

\* a call of the service: the method, its argument and what it returned
SdCall(op, record_id, returned) ==
    [op |-> op, record_id |-> record_id, returned |-> returned]

NoSdCall == SdCall("none", None, NoneOpt)

\* the last call, and per id the last writing call made on it
SdOut(call, last) == [call |-> call, last |-> last]

SoftDeleteIdle ==
    /\ records = [id \in RecordIds |-> NoRow]
    /\ sdOut = SdOut(NoSdCall, [id \in RecordIds |-> NoSdCall])

SdWrite(op, record_id, r) ==
    /\ records' = r.table
    /\ LET call == SdCall(op, record_id, Some(r.returned))
       IN  sdOut' = SdOut(call, [sdOut.last EXCEPT ![record_id] = call])
    /\ UNCHANGED <<pipelineVars, vaultVars>>

SdRead(op, record_id, found) ==
    /\ sdOut' = [sdOut EXCEPT !.call = SdCall(op, record_id, found)]
    /\ UNCHANGED <<pipelineVars, vaultVars, records>>

DeleteRecord(record_id, now) ==
    SdWrite("delete_record", record_id, delete_record(records, record_id, now))

DeleteRecords(record_ids, now) ==
    LET r == delete_records(records, record_ids, now)
        call == SdCall("delete_records", None, Some(r.returned))
    IN  /\ records' = r.table
        /\ sdOut' = SdOut(call,
                          [id \in RecordIds |->
                              IF records'[id] # records[id] THEN call
                              ELSE sdOut.last[id]])
        /\ UNCHANGED <<pipelineVars, vaultVars>>

RestoreRecord(record_id) ==
    SdWrite("restore_record", record_id, restore_record(records, record_id))

HardDeleteRecord(record_id) ==
    SdWrite("hard_delete_record", record_id,
            hard_delete_record(records, record_id))

GetTenant(tenant_id) ==
    SdRead("get_tenant", tenant_id, get_tenant(records, tenant_id))

GetDeletedRecord(record_id) ==
    SdRead("get_deleted_record", record_id,
           get_deleted_record(records, record_id))

GetRecordAnyStatus(record_id) ==
    SdRead("get_record_any_status", record_id,
           get_record_any_status(records, record_id))

\* ---------------------------------------------------------- specification
\* nothing sent or received yet
PipelineIdle ==
    /\ emails = <<>>
    /\ email_events = <<>>
    /\ send = SendIdle
    /\ sendOut = NoSendOut
    /\ sendCalls = 0
    /\ wh = WhIdle
    /\ whOut = NoWhOut
    /\ whCalls = 0
    /\ pm = PmIdle

\* crypto_manager = CryptoManager(): no Fernet yet; a Tenant without settings
VaultIdle ==
    /\ fernet = None
    /\ tenant = PyNone
    /\ vaultOut = NoVaultCall

Init ==
    /\ PROVIDERS \in RegistryTables
    /\ PipelineIdle
    /\ env = Settings(None, "development")
    /\ VaultIdle
    /\ SoftDeleteIdle

\* the vault and the Tenant property, in a process started in any
\* environment
VaultInit ==
    /\ PROVIDERS = <<PostmarkProvider>>
    /\ PipelineIdle
    /\ env \in Configs
    /\ VaultIdle
    /\ SoftDeleteIdle

VaultNext ==
    \/ \E plain_text \in CallerValues, iv \in IVs :
          EncryptPassword(plain_text, iv)
    \/ \E encrypted_text \in CallerValues : DecryptPassword(encrypted_text)
    \/ \E value \in CallerValues, iv \in IVs : SetProviderSettings(value, iv)
    \/ GetProviderSettings

VaultSpec == VaultInit /\ [][VaultNext]_vars

\* SoftDeleteService over a table that holds any rows, none deleted
SoftDeleteInit ==
    /\ PROVIDERS = <<PostmarkProvider>>
    /\ PipelineIdle
    /\ env = Settings(None, "development")
    /\ VaultIdle
    /\ records \in [RecordIds -> {NoRow, LiveRow}]
    /\ sdOut = SdOut(NoSdCall, [id \in RecordIds |-> NoSdCall])

SoftDeleteNext ==
    \/ \E record_id \in RecordIds, now \in SdTimes :
          DeleteRecord(record_id, now)
    \/ \E record_ids \in SUBSET RecordIds, now \in SdTimes :
          DeleteRecords(record_ids, now)
    \/ \E record_id \in RecordIds : RestoreRecord(record_id)
    \/ \E record_id \in RecordIds : HardDeleteRecord(record_id)
    \/ \E tenant_id \in RecordIds : GetTenant(tenant_id)
    \/ \E record_id \in RecordIds : GetDeletedRecord(record_id)
    \/ \E record_id \in RecordIds : GetRecordAnyStatus(record_id)

SoftDeleteSpec == SoftDeleteInit /\ [][SoftDeleteNext]_vars

Next ==
    \/ \E req \in Requests : SendStart(req)
    \/ \E result \in SendOutcomes, now \in Times : SendCall(result, now)
    \/ SendUpdate
    \/ SendFailedEvent
    \/ \E slug \in Slugs, json_ok \in BOOLEAN, verify_ok \in BOOLEAN :
          \* parse_webhook runs, and yields a batch, only on a verified body
          \E batch \in IF json_ok /\ verify_ok THEN Batches ELSE {<<>>} :
             receive_delivery_events(slug, json_ok, verify_ok, batch)
    \/ ProcessEvent
    \/ ExecuteReturn

Spec == Init /\ [][Next]_vars

\* the same program with a database whose commits can fail
FaultNext ==
    \/ Next
    \/ SendUpdateFails
    \/ SendFailedEventFails

FaultSpec == Init /\ [][FaultNext]_vars

\* PostmarkProvider on its own: its methods called directly, on every
\* settings dict, API response and webhook request
AdapterNext ==
    \/ \E settings \in SettingsPool, response \in PostmarkResponses :
          PmSendEmail(settings, response)
    \/ \E payload \in Bodies, signature \in Signatures :
          PmVerifyWebhook(payload, signature)
    \/ \E payload \in Payloads, now \in Times : PmParseWebhook(payload, now)

AdapterSpec == Init /\ [][AdapterNext]_vars

TypeOK ==
    /\ Len(emails) <= MaxSends
    /\ \A i \in 1..Len(emails) : emails[i].status \in {QUEUED, SENT, FAILED}
    /\ send.pc \in {"idle", "call", "update", "event"}
    /\ wh.pc \in {"idle", "loop"}

\* ------------------------------------------------------------ properties
\* a step that runs one iteration of execute's loop
LoopIteration == wh.pc = "loop" /\ wh.i <= Len(wh.parsed_events) /\ wh' # wh

\* the events attached to an email
EventsOf(email_id) ==
    {j \in 1..Len(email_events) : email_events[j].email_id = email_id}

\* C1: execute reports "success" when at least one event of the batch was
\* processed, "partial_failure" when events were received but none was
\* processed, and "success" when parse_webhook yielded no event.
C1_BatchStatus ==
    whOut.kind = "returned" =>
        whOut.body.status =
            IF whOut.call.processed_count >= 1 THEN "success"
            ELSE IF Len(whOut.call.parsed_events) >= 1
                 THEN "partial_failure"
                 ELSE "success"

\* C2: when verify_webhook returns false, execute raises the 401,
\* parse_webhook is not called, no iteration of the loop ever runs for the
\* request, and the step leaves emails and email_events as they were.
C2_AuthFailure ==
    [][ /\ (wh'.pc = "loop" => wh'.verified)
        /\ (whOut'.call.verify_called /\ ~whOut'.call.verified)
              => /\ whOut'.kind = "raised"
                 /\ whOut'.status_code = HTTP_401_UNAUTHORIZED
                 /\ ~whOut'.call.parse_called
                 /\ whOut'.call.inserted = <<>>
        /\ (whCalls' # whCalls /\ whOut'.call.verify_called
                /\ ~whOut'.call.verified)
              => /\ emails' = emails
                 /\ email_events' = email_events
                 /\ wh' = wh ]_vars

C2_Witness ==
    /\ whOut.kind = "raised"
    /\ whOut.status_code = HTTP_401_UNAUTHORIZED
    /\ whOut.call.verify_called
    /\ \E i \in 1..Len(emails) : emails[i].status = SENT

\* C3: an iteration whose event matches no Email appends one failure
\* descriptor and goes on to the next event; it removes or changes no
\* Email Event inserted before it; an iteration after a failure whose event
\* does match is processed and counted; execute returns only after every
\* event of the batch had its iteration.
C3_BatchIsolation ==
    [][ /\ LoopIteration =>
              LET event == wh.parsed_events[wh.i]
                  found == MatchingEmails(emails, event.provider_message_id,
                                          wh.provider_id)
              IN  /\ wh'.pc = "loop"
                  /\ wh'.i = wh.i + 1
                  /\ Len(email_events') >= Len(email_events)
                  /\ SubSeq(email_events', 1, Len(email_events))
                        = email_events
                  /\ wh'.inserted \in {wh.inserted,
                         Append(wh.inserted, Len(email_events'))}
                  /\ found = {} =>
                        /\ Len(wh'.failed_events) = Len(wh.failed_events) + 1
                        /\ wh'.processed_count = wh.processed_count
                  /\ found # {} =>
                        /\ wh'.failed_events = wh.failed_events
                        /\ wh'.processed_count = wh.processed_count + 1
                        /\ Len(email_events') = Len(email_events) + 1
        /\ whOut'.kind = "returned" =>
              whOut'.call.i = Len(whOut'.call.parsed_events) + 1 ]_vars

C3_Witness ==
    /\ whOut.kind = "returned"
    /\ Len(whOut.call.parsed_events) = 2
    /\ Len(whOut.call.failed_events) = 1
    /\ whOut.call.failed_events[1].provider_message_id
          = whOut.call.parsed_events[1].provider_message_id
    /\ whOut.call.parsed_events[2].provider_message_id
          # whOut.call.parsed_events[1].provider_message_id
    /\ whOut.call.processed_count = 1
    /\ Len(whOut.call.inserted) = 1
    /\ whOut.call.inserted[1] <= Len(email_events)

\* C4: in every result execute returns, events_received is the number of
\* events parse_webhook yielded, events_received = events_processed +
\* events_failed, the call inserted events_processed Email Events, and
\* failures is None exactly when events_failed = 0 and otherwise a list of
\* events_failed descriptors {provider_message_id, error}, each naming the
\* message id of an event of the batch.
C4_ResultCounts ==
    whOut.kind = "returned" =>
        LET b == whOut.body
            batch == whOut.call.parsed_events
        IN  /\ b.events_received = Len(batch)
            /\ b.events_received = b.events_processed + b.events_failed
            /\ Len(whOut.call.inserted) = b.events_processed
            /\ (b.failures = NoneOpt) <=> (b.events_failed = 0)
            /\ b.failures # NoneOpt =>
                  /\ Len(b.failures[1]) = b.events_failed
                  /\ \A n \in 1..Len(b.failures[1]) :
                        /\ DOMAIN b.failures[1][n]
                              = {"provider_message_id", "error"}
                        /\ \E m \in 1..Len(batch) :
                              batch[m].provider_message_id
                                 = b.failures[1][n].provider_message_id

C4_Witness ==
    /\ whOut.kind = "returned"
    /\ whOut.body.events_processed = 1
    /\ whOut.body.events_failed = 1
    /\ whOut.body.failures # NoneOpt

\* C5: an iteration whose event matches a persisted Email by (provider,
\* provider_message_id) appends exactly one Email Event, attached to a
\* matching Email, with the event's type, occurred_at and raw payload; an
\* iteration whose event matches none leaves email_events unchanged.
C5_OneEventPerMatch ==
    [][ LoopIteration =>
          LET event == wh.parsed_events[wh.i]
              found == {i \in 1..Len(emails) :
                           /\ emails[i].provider = wh.provider_id
                           /\ emails[i].provider_message_id
                                 = event.provider_message_id}
          IN  /\ found # {} =>
                    \E email_id \in found :
                       email_events' = Append(email_events,
                          [email_id |-> email_id,
                           event_type |-> event.type,
                           event_timestamp |-> event.occurred_at,
                           details |-> event.raw_payload])
              /\ found = {} => email_events' = email_events ]_vars

C5_Witness ==
    /\ whOut.kind = "returned"
    /\ whOut.call.processed_count = 1
    /\ Len(whOut.call.inserted) = 1
    /\ whOut.call.inserted[1] <= Len(email_events)
    /\ LET ev == email_events[whOut.call.inserted[1]]
       IN  /\ ev.event_type = "opened"
           /\ emails[ev.email_id].provider_message_id = "M2"
           /\ emails[ev.email_id].provider = whOut.call.provider_id

\* C6: a row of emails is created with status queued, before the provider
\* call of its send; it changes only once, in the update that follows the
\* provider's answer, from queued to sent or failed; no step of a send or
\* of webhook ingestion changes a row that is sent or failed; a send that
\* returns has made that one update.
C6_StatusMachine ==
    [][ /\ Len(emails') >= Len(emails)
        /\ \A i \in 1..Len(emails) :
              emails'[i] # emails[i] =>
                 /\ emails[i].status = QUEUED
                 /\ emails'[i].status \in {SENT, FAILED}
                 /\ send.pc = "update"
                 /\ send.email_id = i
        /\ \A i \in (Len(emails) + 1)..Len(emails') :
              /\ emails'[i].status = QUEUED
              /\ send'.pc = "call"
              /\ send'.email_id = i
        /\ sendOut'.kind = "returned" =>
              emails'[sendOut'.email_id].status \in {SENT, FAILED} ]_vars

C6_Witness ==
    /\ sendOut.kind = "returned"
    /\ whOut.kind = "returned"
    /\ \E i \in 1..Len(emails) :
          /\ emails[i].status = SENT
          /\ \E j \in EventsOf(i) : email_events[j].event_type = "delivered"

\* C7: when the adapter's send returned ok=True with message id M, the
\* Email execute returns is the persisted row, with status sent, sent_at
\* set and provider_message_id = M, and no step of the call adds an Email
\* Event.
C7_SendSuccess ==
    [][ /\ (send.pc = "update" /\ send.result.ok /\ send' # send) =>
              /\ sendOut'.kind = "returned"
              /\ sendOut'.result = send.result
              /\ sendOut'.email = emails'[send.email_id]
              /\ sendOut'.email.status = SENT
              /\ sendOut'.email.sent_at \in Times
              /\ sendOut'.email.provider_message_id
                    = send.result.provider_message_id
              /\ email_events' = email_events
        /\ (send.pc \in {"idle", "call"} /\ send' # send) =>
              email_events' = email_events
        /\ (sendOut'.kind = "returned" /\ sendOut'.result.ok) =>
              sendOut'.email.status = SENT ]_vars

C7_Witness ==
    /\ sendOut.kind = "returned"
    /\ sendOut.result.ok
    /\ sendOut.email.status = SENT
    /\ sendOut.email.provider_message_id = "M2"
    /\ EventsOf(sendOut.email_id) = {}

\* C8: when the adapter's send returned ok=False with error code C and
\* message T, execute raises nothing and returns the Email with status
\* failed, and exactly one Email Event exists for it, of type "failed" with
\* details {error_code: C, error_message: T}.
C8_SendFailure ==
    (/\ sendOut.kind # "none"
     /\ sendOut.result # NoResult
     /\ ~sendOut.result.ok
     /\ ~sendOut.result.raised) =>
        /\ sendOut.kind = "returned"
        /\ sendOut.email.status = FAILED
        /\ emails[sendOut.email_id].status = FAILED
        /\ Cardinality(EventsOf(sendOut.email_id)) = 1
        /\ \A j \in EventsOf(sendOut.email_id) :
              /\ email_events[j].event_type = "failed"
              /\ email_events[j].details
                    = [error_code |-> sendOut.result.error_code,
                       error_message |-> sendOut.result.error_message]

C8_Witness ==
    /\ sendOut.kind = "returned"
    /\ sendOut.result.error_code = "E1"
    /\ sendOut.result.error_message = "boom"
    /\ sendOut.email.status = FAILED
    /\ Cardinality(EventsOf(sendOut.email_id)) = 1

\* C9: once a send has ended, every Email with status failed has its
\* "failed" Email Event, and a send that ended because persisting the final
\* state failed has left its Email in status queued with no Email Event.
C9_AtomicFinalTransition ==
    send.pc = "idle" =>
        /\ \A i \in 1..Len(emails) :
              emails[i].status = FAILED =>
                 \E j \in EventsOf(i) : email_events[j].event_type = "failed"
        /\ (/\ sendOut.kind = "raised"
            /\ sendOut.result # NoResult
            /\ ~sendOut.result.raised) =>
              /\ emails[sendOut.email_id].status = QUEUED
              /\ EventsOf(sendOut.email_id) = {}

\* C10: when the adapter's send raises, execute raises, the Email row of
\* that send keeps status queued with no provider_message_id and no
\* sent_at, and it has no Email Event.
C10_ProviderRaises ==
    /\ ~send.result.raised
    /\ sendOut.result.raised =>
          /\ sendOut.kind = "raised"
          /\ sendOut.email_id \in 1..Len(emails)
          /\ emails[sendOut.email_id].status = QUEUED
          /\ emails[sendOut.email_id].provider_message_id = None
          /\ emails[sendOut.email_id].sent_at = None
          /\ EventsOf(sendOut.email_id) = {}

C10_Witness ==
    /\ sendOut.kind = "raised"
    /\ sendOut.result.raised
    /\ sendOut.email_id \in 1..Len(emails)
    /\ emails[sendOut.email_id].status = QUEUED
    /\ emails[sendOut.email_id].provider_message_id = None
    /\ EventsOf(sendOut.email_id) = {}

\* the request of the send that a step started
StartedReq == IF send'.pc # "idle" THEN send'.req ELSE sendOut'.req

\* C11: when the default provider resolves and rendering the body raises
\* because the template references a name the caller did not supply, the
\* call ends in that step with the rendering error, the error lists exactly
\* the supplied keys, no Email row and no Email Event is created, and the
\* adapter's send is not invoked (the call never reaches the provider call
\* and carries no adapter result).
C11_RenderFailure ==
    [][ (/\ sendCalls' # sendCalls
         /\ get_default_provider_slug(PROVIDERS) # None
         /\ ~(StartedReq.html \subseteq StartedReq.template_variables))
          => /\ sendOut'.kind = "raised"
             /\ sendOut'.error = "Template rendering failed"
             /\ sendOut'.listed = StartedReq.template_variables
             /\ sendOut'.email_id = 0
             /\ sendOut'.result = NoResult
             /\ send' = SendIdle
             /\ emails' = emails
             /\ email_events' = email_events ]_vars

C11_Witness ==
    /\ sendOut.kind = "raised"
    /\ sendOut.error = "Template rendering failed"
    /\ sendOut.req.html = {"name", "link"}
    /\ sendOut.listed = {"name"}
    /\ emails = <<>>
    /\ email_events = <<>>

\* C12: an Email has a provider_message_id only when its status is sent: a
\* queued or failed Email has none, also after a send whose adapter
\* answered ok=False with a message id in its response.
C12_MessageIdOnlyWhenSent ==
    \A i \in 1..Len(emails) :
        /\ emails[i].provider_message_id # None => emails[i].status = SENT
        /\ emails[i].status \in {QUEUED, FAILED} =>
              emails[i].provider_message_id = None

C12_Witness ==
    /\ sendOut.kind = "returned"
    /\ ~sendOut.result.ok
    /\ sendOut.result.provider_message_id = "M1"
    /\ emails[sendOut.email_id].status = FAILED
    /\ emails[sendOut.email_id].provider_message_id = None

\* C13: after a send through the default provider P returned ok with
\* message id M, the iteration of a webhook received for P whose event
\* carries M is processed, not failed, and appends one Email Event attached
\* to an Email that holds (P's identifier, M): the Email of that send when
\* M was given to that send only.  The identifier stored on the Email at
\* send time is the one the webhook's lookup uses.
C13_SendThenWebhookCorrelates ==
    [][ (/\ LoopIteration
         /\ sendOut.kind = "returned"
         /\ sendOut.result.ok
         /\ sendOut.result.provider_message_id
               = wh.parsed_events[wh.i].provider_message_id
         /\ wh.slug = get_default_provider_slug(PROVIDERS))
          => LET M == sendOut.result.provider_message_id
                 ev == email_events'[Len(email_events')]
             IN  /\ emails[sendOut.email_id].provider = wh.provider_id
                 /\ wh'.processed_count = wh.processed_count + 1
                 /\ wh'.failed_events = wh.failed_events
                 /\ Len(email_events') = Len(email_events) + 1
                 /\ emails[ev.email_id].provider_message_id = M
                 /\ emails[ev.email_id].provider
                       = emails[sendOut.email_id].provider
                 /\ (\A j \in 1..Len(emails) :
                        emails[j].provider_message_id = M
                           => j = sendOut.email_id)
                       => ev.email_id = sendOut.email_id ]_vars

C13_Witness ==
    /\ sendOut.kind = "returned"
    /\ sendOut.result.ok
    /\ whOut.kind = "returned"
    /\ whOut.call.slug = get_default_provider_slug(PROVIDERS)
    /\ Len(whOut.call.parsed_events) = 1
    /\ whOut.call.parsed_events[1].provider_message_id
          = sendOut.result.provider_message_id
    /\ whOut.body.events_processed = 1
    /\ email_events[whOut.call.inserted[1]].email_id = sendOut.email_id

\* a step of the delivery-events route or of execute
WebhookStep == wh' # wh \/ whOut' # whOut \/ whCalls' # whCalls

\* C14: a step of webhook ingestion leaves every row of emails as it was
\* and every Email Event that existed before it in place and unchanged; all
\* it does to the tables is append Email Events.
C14_IngestionOnlyAppends ==
    [][ WebhookStep =>
          /\ emails' = emails
          /\ Len(email_events') >= Len(email_events)
          /\ \A j \in 1..Len(email_events) :
                email_events'[j] = email_events[j] ]_vars

C14_Witness ==
    /\ whOut.kind = "returned"
    /\ whOut.call.processed_count = 2
    /\ Len(email_events) >= 2
    /\ \E i \in 1..Len(emails) :
          emails[i].status = SENT /\ Cardinality(EventsOf(i)) >= 2

\* how many rows of a table equal a given row
Copies(tbl, row) == Cardinality({j \in 1..Len(tbl) : tbl[j] = row})

\* C15: an iteration whose event matches an Email appends one more Email
\* Event and counts the event as processed also when an identical Email
\* Event is already stored (k deliveries of one event leave k copies), and
\* a delivery of a one-event batch whose event matched reports
\* events_processed = 1.
C15_RedeliveryAppends ==
    [][ /\ LoopIteration =>
              LET event == wh.parsed_events[wh.i]
                  found == MatchingEmails(emails, event.provider_message_id,
                                          wh.provider_id)
              IN  found # {} =>
                     /\ wh'.processed_count = wh.processed_count + 1
                     /\ Len(email_events') = Len(email_events) + 1
                     /\ \E email_id \in found :
                           Copies(email_events', EventRow(email_id, event))
                              = Copies(email_events,
                                       EventRow(email_id, event)) + 1
        /\ (/\ whOut'.kind = "returned"
            /\ Len(whOut'.call.parsed_events) = 1
            /\ whOut'.call.inserted # <<>>)
              => whOut'.body.events_processed = 1 ]_vars

C15_Witness ==
    /\ whCalls = 2
    /\ whOut.kind = "returned"
    /\ Len(whOut.call.parsed_events) = 1
    /\ whOut.body.events_processed = 1
    /\ LET j == whOut.call.inserted[1]
       IN  /\ j = 2
           /\ email_events[1] = email_events[j]
           /\ email_events[j]
                 = EventRow(email_events[j].email_id,
                            whOut.call.parsed_events[1])

\* C16: PostmarkProvider.verify_webhook answers false for a request whose
\* headers carry no valid signature of the provider, so that execute stops
\* such a request before any Email Event is created.
C16_VerifyAuthenticates ==
    (pm.op = "verify_webhook" /\ pm.signature # "valid") => ~pm.verdict

\* C17: parse_webhook raises on no payload, every event it yields has its
\* type in the fixed vocabulary, and a payload whose RecordType is missing
\* or is none of the recognized ones yields type "unknown".
C17_ParsedTypeVocabulary ==
    pm.op = "parse_webhook" =>
        LET EventTypes == {"sent", "delivered", "opened", "clicked",
                           "bounced", "complained", "dropped", "deferred",
                           "spam", "unsubscribed", "failed", "unknown"}
            Recognized == {"Delivery", "Open", "Click", "Bounce",
                           "SpamComplaint"}
        IN  /\ ~pm.raised
            /\ \A n \in 1..Len(pm.events) :
                  /\ pm.events[n].type \in EventTypes
                  /\ pm.payload.RecordType \notin Recognized =>
                        pm.events[n].type = "unknown"

\* C18: a result PostmarkProvider.send_email returns has exactly one side
\* populated: with ok it has a provider_message_id and neither error_code
\* nor error_message; without ok it has error_code and error_message and no
\* provider_message_id.
C18_ResultOneSided ==
    (pm.op = "send_email" /\ ~pm.raised) =>
        /\ pm.result.ok =>
              /\ pm.result.provider_message_id # None
              /\ pm.result.error_code = None
              /\ pm.result.error_message = None
        /\ ~pm.result.ok =>
              /\ pm.result.error_code # None
              /\ pm.result.error_message # None
              /\ pm.result.provider_message_id = None

\* the delivery-events request that a step started (finished or in flight)
StartedWh == IF wh'.pc # "idle" THEN wh' ELSE whOut'.call

\* C19: get_provider raises the unsupported-provider error exactly for a
\* slug with no entry in the table, and for a registered slug returns an
\* instance of the class registered under it that holds exactly the
\* settings passed; a delivery-events request for an unregistered slug is
\* answered 404 in one step that calls neither verify_webhook nor
\* parse_webhook and leaves emails and email_events as they were, and a
\* request for a registered slug is not answered 404.
C19_UnknownProvider ==
    [][ whCalls' # whCalls =>
          LET registered == {i \in 1..Len(PROVIDERS) :
                                PROVIDERS[i].slug = StartedWh.slug}
          IN  /\ \A settings \in SettingsPool :
                    LET provider == get_provider(PROVIDERS, StartedWh.slug,
                                                 settings)
                    IN  /\ registered = {} =>
                              /\ provider.raised
                              /\ provider.error = "Unsupported provider"
                        /\ registered # {} =>
                              /\ ~provider.raised
                              /\ provider.klass \in registered
                              /\ provider.settings = settings
              /\ registered = {} =>
                    /\ whOut'.kind = "raised"
                    /\ whOut'.status_code = HTTP_404_NOT_FOUND
                    /\ ~whOut'.call.verify_called
                    /\ ~whOut'.call.parse_called
                    /\ whOut'.call.inserted = <<>>
                    /\ wh' = wh
                    /\ emails' = emails
                    /\ email_events' = email_events
              /\ registered # {} =>
                    /\ whOut'.status_code # HTTP_404_NOT_FOUND
                    /\ StartedWh.settings = EmptySettings ]_vars

C19_Witness ==
    /\ whOut.kind = "raised"
    /\ whOut.status_code = HTTP_404_NOT_FOUND
    /\ whOut.call.slug = "sendgrid"
    /\ ~whOut.call.verify_called
    /\ \E i \in 1..Len(emails) : emails[i].status = SENT
    /\ email_events = <<>>

\* the classes of the table that are enabled and default
Qualifying == {i \in 1..Len(PROVIDERS) :
                 PROVIDERS[i].enabled /\ PROVIDERS[i].default}

\* C20: get_default_provider returns an instance of the first class, in
\* table order, whose enabled and default are both true, and raises the
\* no-default-provider error when the table has none; a send started with
\* no such class raises that error and creates no Email row, and a send
\* that creates its row records the identifier of that first class.
C20_DefaultProvider ==
    [][ /\ sendCalls' # sendCalls =>
              \A settings \in {NoneOpt} \cup {Some(x) : x \in SettingsPool} :
                 LET provider == get_default_provider(PROVIDERS, settings)
                 IN  /\ Qualifying = {} =>
                           /\ provider.raised
                           /\ provider.error
                                 = "No default email provider configured"
                     /\ Qualifying # {} =>
                           /\ ~provider.raised
                           /\ provider.klass \in Qualifying
                           /\ \A i \in Qualifying : provider.klass <= i
                           /\ provider.settings
                                 = IF settings = NoneOpt THEN EmptySettings
                                   ELSE settings[1]
        /\ (sendCalls' # sendCalls /\ Qualifying = {}) =>
              /\ sendOut'.kind = "raised"
              /\ sendOut'.error = "No default email provider configured"
              /\ sendOut'.email_id = 0
              /\ send' = SendIdle
              /\ emails' = emails
              /\ email_events' = email_events
        /\ Len(emails') > Len(emails) =>
              \E k \in Qualifying :
                 /\ \A i \in Qualifying : k <= i
                 /\ emails'[Len(emails')].provider
                       = PROVIDERS[k].provider_id ]_vars

C20_Witness ==
    /\ Cardinality(Qualifying) = 2
    /\ \E i \in 1..Len(PROVIDERS) :
          /\ PROVIDERS[i].default
          /\ ~PROVIDERS[i].enabled
          /\ \A k \in Qualifying : i < k
    /\ send.pc = "call"
    /\ emails[send.email_id].provider = "postmark"
    /\ emails[send.email_id].status = QUEUED

\* sub can be had from seq by leaving elements out
RECURSIVE Embeds(_, _)
Embeds(sub, seq) ==
    IF sub = <<>> THEN TRUE
    ELSE IF seq = <<>> THEN FALSE
    ELSE IF Head(sub) = Head(seq) THEN Embeds(Tail(sub), Tail(seq))
    ELSE Embeds(sub, Tail(seq))

\* what an Email Event row and a failure descriptor keep of their event
RowSource(row) ==
    [type |-> row.event_type, occurred_at |-> row.event_timestamp,
     raw_payload |-> row.details]

EventSource(event) ==
    [type |-> event.type, occurred_at |-> event.occurred_at,
     raw_payload |-> event.raw_payload]

C29_EarlyWebhookCorrelates ==
    [][(/\ LoopIteration
        /\ send.pc = "update"
        /\ send.result.ok
        /\ send.result.provider_message_id
              = wh.parsed_events[wh.i].provider_message_id
        /\ wh.provider_id = emails[send.email_id].provider)
       => (/\ wh'.processed_count = wh.processed_count + 1
           /\ wh'.failed_events = wh.failed_events
           /\ Len(email_events') = Len(email_events) + 1
           /\ email_events'[Len(email_events')].email_id
                 = send.email_id)]_vars

\* ---- the vault
\* the call before this step was encrypt_password on a non-empty str and
\* it returned
EncryptedBefore ==
    /\ vaultOut.op = "encrypt_password"
    /\ ~vaultOut.raised
    /\ vaultOut.input.type = "str"
    /\ vaultOut.input.text # EmptyText

\* C21: decrypt_password(encrypt_password(s)) returns s for every
\* non-empty str s, also for one that begins with the marker "gAAAAA".
C21_RoundTrip ==
    [][(/\ EncryptedBefore
        /\ vaultOut'.op = "decrypt_password"
        /\ vaultOut'.input = vaultOut.value)
       => (~vaultOut'.raised /\ vaultOut'.value = vaultOut.input)]_vars

\* C22: encrypt_password applied to what encrypt_password(x) returned
\* returns that same value, and the value still decrypts to x.
C22_EncryptIdempotent ==
    [][(/\ EncryptedBefore
        /\ vaultOut'.op = "encrypt_password"
        /\ vaultOut'.input = vaultOut.value)
       => (/\ ~vaultOut'.raised
           /\ vaultOut'.value = vaultOut.value
           /\ LET d == decrypt_password(env, fernet', vaultOut'.value)
              IN  ~d.raised /\ d.value = vaultOut.input)]_vars

\* a token the vault's Fernet accepts: made under its key and unchanged
Genuine(text) == text.marker /\ text.intact /\ text.key = fernet

\* the errors decrypt_password raises from its decrypting branch
DecryptionErrors ==
    {"Invalid encrypted token - cannot decrypt", "Failed to decrypt password"}

\* C23: decrypt_password of a str that carries the marker but is not a
\* token of the vault's key (corrupted, tampered with, made under another
\* key) raises a decryption error and returns nothing; the getter of
\* Tenant.provider_settings on such a column raises that same error
\* instead of returning the empty dict.
C23_BadTokenRaises ==
    (/\ vaultOut.op \in {"decrypt_password", "provider_settings.getter"}
     /\ vaultOut.input.type = "str"
     /\ vaultOut.input.text.marker
     /\ ~Genuine(vaultOut.input.text))
    => (/\ vaultOut.raised
        /\ vaultOut.error # NoError
        /\ vaultOut.error[1] \in DecryptionErrors
        /\ vaultOut.error
             = decrypt_password(env, fernet, vaultOut.input).error)

\* the getter was called on a column holding a token of the vault's own
\* key with a byte changed, and raised
C23_Witness ==
    /\ vaultOut.op = "provider_settings.getter"
    /\ vaultOut.input.type = "str"
    /\ vaultOut.input.text.key = fernet
    /\ fernet # None
    /\ ~vaultOut.input.text.intact
    /\ vaultOut.raised
    /\ vaultOut.error = <<"Invalid encrypted token - cannot decrypt">>

\* the last call was an encrypt_password or decrypt_password that had to
\* reach for the Fernet
NeedsKey ==
    /\ vaultOut.input.type = "str"
    /\ vaultOut.input.text # EmptyText
    /\ \/ vaultOut.op = "encrypt_password" /\ ~vaultOut.input.text.marker
       \/ vaultOut.op = "decrypt_password" /\ vaultOut.input.text.marker

\* the call failed for want of FERNET_KEY
MissingKeyError ==
    /\ vaultOut.raised
    /\ Len(vaultOut.error) = 2
    /\ vaultOut.error[2]
         = "FERNET_KEY environment variable is required in production"
    /\ fernet = None

\* C24: with no explicit key the derived key is used in every environment
\* other than production and only there; in production a call that needs
\* the key fails with the missing-key error and no derived key exists.
C24_DerivedOutsideProduction ==
    /\ (env.fernet_key = None /\ NeedsKey)
          => IF env.environment # "production" THEN fernet = DerivedKey
             ELSE MissingKeyError
    /\ fernet = DerivedKey
          => env.fernet_key = None /\ env.environment # "production"

\* C24, amended: with no explicit key the derived key is used exactly when
\* the environment is "development" or "test"; in every other
\* environment, production included, a call that needs the key fails with
\* the missing-key error and no derived key exists.
C24_DerivedInDevelopmentAndTest ==
    /\ (env.fernet_key = None /\ NeedsKey)
          => IF env.environment \in {"development", "test"}
             THEN fernet = DerivedKey
             ELSE MissingKeyError
    /\ fernet = DerivedKey
          => /\ env.fernet_key = None
             /\ env.environment \in {"development", "test"}

\* an encrypt_password call in a staging environment without a key failed
C24_Witness ==
    /\ env = Settings(None, "staging")
    /\ vaultOut.op = "encrypt_password"
    /\ NeedsKey
    /\ MissingKeyError

\* C25: when FERNET_KEY is set and does not decode to exactly 32 bytes the
\* vault fails at startup: no encrypt_password or decrypt_password call
\* ever returns normally.
C25_InvalidKeyFailsAtStartup ==
    (env.fernet_key \notin {None, ""} /\ DecodedLen(env.fernet_key) # 32)
    => ~(/\ vaultOut.op \in {"encrypt_password", "decrypt_password"}
         /\ ~vaultOut.raised)

\* a Fernet token whose plaintext is the JSON text of the empty dict
EncryptsEmptySettings(text) ==
    text.marker /\ text.key # None /\ text.syntax = "object" /\ text.pairs = <<>>

\* C26: after any assignments to Tenant.provider_settings the persisted
\* column is None or a str that is_encrypted recognizes, never the empty
\* str and never the encryption of empty settings; an assignment that is
\* rejected leaves the column as it was.
C26_ColumnNoneOrCiphertext ==
    [][/\ \/ tenant' = PyNone
          \/ /\ is_encrypted(tenant')
             /\ tenant'.text # EmptyText
             /\ ~EncryptsEmptySettings(tenant'.text)
       /\ (vaultOut'.op = "provider_settings.setter" /\ vaultOut'.raised)
             => tenant' = tenant]_vars

\* the call before this step was an assignment to provider_settings that
\* was accepted
AssignedBefore == vaultOut.op = "provider_settings.setter" /\ ~vaultOut.raised

\* C30: reading Tenant.provider_settings after assigning a non-empty
\* settings dict d returns d; after assigning None or {} it returns {};
\* assigning the stored, already encrypted column value back leaves the
\* stored value and the value read unchanged.
C30_SettingsRoundTrip ==
    [][/\ (/\ AssignedBefore
           /\ vaultOut.input.type = "dict"
           /\ vaultOut.input.dict # {}
           /\ vaultOut'.op = "provider_settings.getter")
          => (~vaultOut'.raised /\ vaultOut'.value = vaultOut.input)
       /\ (/\ AssignedBefore
           /\ vaultOut.input \in {PyNone, PyDict({})}
           /\ vaultOut'.op = "provider_settings.getter")
          => (~vaultOut'.raised /\ vaultOut'.value = PyDict({}))
       /\ (/\ vaultOut'.op = "provider_settings.setter"
           /\ vaultOut'.n # vaultOut.n
           /\ tenant # PyNone
           /\ vaultOut'.input = tenant)
          => (/\ ~vaultOut'.raised
              /\ tenant' = tenant
              /\ provider_settings_getter(env, fernet', tenant')
                   = provider_settings_getter(env, fernet, tenant))]_vars

\* a settings dict of two entries was assigned and read back
C30_Witness ==
    /\ vaultOut.op = "provider_settings.getter"
    /\ ~vaultOut.raised
    /\ vaultOut.value = PyDict({<<"api_key", "k1">>, <<"region", "eu">>})
    /\ tenant.type = "str"
    /\ Genuine(tenant.text)

\* ---- soft delete
\* the last writing call on the id was `op`, and it returned True
LastTrue(out, op, id) == out.last[id] = SdCall(op, id, Some(TRUE))

\* the step is a lookup of the id by the method `op`
Lookup(op, id) == sdOut'.call.op = op /\ sdOut'.call.record_id = id

\* C27: after delete_record(id) has returned True the record is not
\* returned by a normal lookup and is returned by get_deleted_record;
\* after restore_record(id) has returned True it is returned by a normal
\* lookup and not by get_deleted_record; delete_record on an id that has
\* no row or is already soft-deleted returns False and changes nothing.
C27_SoftDeleteReversible ==
    [][/\ \A id \in RecordIds :
            /\ LastTrue(sdOut', "delete_record", id)
                 => /\ get_tenant(records', id) = NoneOpt
                    /\ get_deleted_record(records', id) = Some(id)
                    /\ Lookup("get_tenant", id)
                          => sdOut'.call.returned = NoneOpt
                    /\ Lookup("get_deleted_record", id)
                          => sdOut'.call.returned = Some(id)
            /\ LastTrue(sdOut', "restore_record", id)
                 => /\ get_tenant(records', id) = Some(id)
                    /\ get_deleted_record(records', id) = NoneOpt
                    /\ Lookup("get_tenant", id)
                          => sdOut'.call.returned = Some(id)
                    /\ Lookup("get_deleted_record", id)
                          => sdOut'.call.returned = NoneOpt
            /\ (/\ Lookup("delete_record", id)
                /\ ~records[id].exists \/ records[id].deleted_at # None)
                 => /\ sdOut'.call.returned = Some(FALSE)
                    /\ records' = records]_vars

\* one record was deleted and restored and a lookup has just found it,
\* while another is deleted
C27_Witness ==
    /\ LastTrue(sdOut, "restore_record", "r1")
    /\ records["r1"] = LiveRow
    /\ sdOut.call = SdCall("get_tenant", "r1", Some("r1"))
    /\ LastTrue(sdOut, "delete_record", "r2")
    /\ records["r2"].deleted_at # None
====
